---- MODULE Spec2Model ----
(***************************************************************************)
(* The daily aggregation-and-prediction pipeline of the water quality      *)
(* monitoring service: the Reading Store, the Aggregator                   *)
(* (crud.compute_daily_aggregates), the Classifier Port                    *)
(* (ml_service.MLService), the Prediction Store upsert                     *)
(* (crud.create_daily_prediction), the Daily Job                           *)
(* (scheduler_service.run_daily_prediction), the cron scheduler and the    *)
(* HTTP handlers of main.py.                                               *)
(*                                                                         *)
(* Time is an integer count of instants on the UTC clock; a calendar day   *)
(* is DayLen consecutive instants.  A float is modelled by an exact        *)
(* rational <<numerator, denominator>> in lowest terms, a Python Optional  *)
(* by a sequence of length 0 (None) or 1.                                  *)
(*                                                                         *)
(* Four specifications share the actions.  Spec drives the job, the        *)
(* stores and the handlers of an application that is up, the scheduler     *)
(* started and the job's classifier name bound to a service state;         *)
(* SpecQuery is the ingestion, the cron job and the manual trigger with    *)
(* the query handlers beside them, on one payload; SpecLife is Spec        *)
(* with the application's shutdown, on a host ahead of UTC; SpecApp is the *)
(* process as main.py starts it, from import through lifespan, over what   *)
(* the two artifact files may hold.                                        *)
(*                                                                         *)
(* Every statement that goes to the database (a SELECT, a COMMIT) may be   *)
(* refused by the storage engine: SQLite answers `database is locked`      *)
(* while another connection holds the file.                                *)
(*                                                                         *)
(* Threads: APScheduler runs the cron job on its own thread ("scheduler",  *)
(* at most one instance of the job at a time); every HTTP handler is an    *)
(* `async def` that calls the database synchronously, so the handlers run  *)
(* one at a time on the event loop ("manual" is the trigger handler).  The *)
(* scheduler's thread runs between any two statements of a handler.        *)
(***************************************************************************)
EXTENDS Integers, Sequences, FiniteSets, TLC

\* ---------------------------------------------------------------- bounds
\* Last instant of the UTC clock that the model explores.
MaxTime == 3
\* Largest number of rows in the Reading Store.
MaxReadings == 2

\* Instants per calendar day: the span datetime.min.time() .. datetime.max.time().
DayLen == 2

\* The host's local UTC offsets explored, in instants (half days here).
TzOffsets == {0, 1}

\* Sensor payloads the ESP32 may post (ph, tds, turbidity, temperature).
Payloads ==
    { [ph |-> 7, tds |-> 300, turbidity |-> 2, temperature |-> 25],
      [ph |-> 9, tds |-> 500, turbidity |-> 6, temperature |-> 31] }

Procs == {"scheduler", "manual"}

\* What a name that should hold the classifier service can be bound to:
\* None, an MLService one of whose two attributes is None ("unloaded"), or
\* an MLService holding two unpickled objects: a classifier with
\* predict_proba, a classifier without it ("loaded_plain"), or objects whose
\* predict or inverse_transform call raises ("loaded_faulty").
ServiceStates ==
    {"None", "unloaded", "loaded_proba", "loaded_plain", "loaded_faulty"}

VARIABLES
    now,            \* the UTC clock (datetime.utcnow)
    tzOffset,       \* local time minus UTC on this host, in instants
    readings,       \* table sensor_readings, in insertion order
    predictions,    \* table daily_predictions, in insertion order
    pc,             \* per thread: where its run of run_daily_prediction stands
    target,         \* per run: the local `yesterday`
    aggregates,     \* per run: the local `aggregates` (Optional)
    label,          \* per run: prediction_label
    confidence,     \* per run: confidence (Optional)
    existing,       \* per run: the row the lookup loaded into the session
                    \* (Optional); its identity alone once the write's
                    \* transaction has ended
    err,            \* per run: the exception the run raised, "none" if none
    db_reading,     \* the ingestion in progress on the event loop: the id of
                    \* the row create_sensor_reading has committed and not
                    \* yet reloaded (Optional)
    cronFired,      \* whether the cron firing due at this instant has been handled
    phase,          \* lifespan: "imported", "create_failed", "load_failed",
                    \* "publish_failed", "running", "stopping" or "stopped"
    artifacts,      \* the two pickles under ml_artifacts/, as joblib finds them
    scheduler,      \* main.scheduler: "None", "running" or "stopped"
    app_state_ml,   \* app.state.ml_service
    module_ml,      \* app.ml_service.ml_service (the module attribute)
    sched_ml,       \* scheduler_service.ml_service (bound by its from-import)
    response        \* the HTTP response sent by the step just taken (Optional):
                    \* the handler that answered, the status and the body

vars == <<now, tzOffset, readings, predictions, pc, target, aggregates, label,
          confidence, existing, err, db_reading, cronFired, phase, artifacts,
          scheduler, app_state_ml, module_ml, sched_ml, response>>

jobLocals == <<target, aggregates, label, confidence, existing, err>>
process == <<phase, artifacts, scheduler, app_state_ml, module_ml, sched_ml>>

\* ------------------------------------------------------------- optionals
None == <<>>
Some(x) == <<x>>

\* ------------------------------------------------------------ arithmetic
RECURSIVE GCD(_, _)
GCD(a, b) == IF b = 0 THEN a ELSE GCD(b, a % b)

\* sum / n as SQL's avg() and float() give it: the quotient, here exact.
Avg(sum, n) == LET g == GCD(sum, n) IN <<sum \div g, n \div g>>

\* ------------------------------------------------------------- calendar
\* datetime.combine(target_date, datetime.min.time())
start_datetime(d) == d * DayLen
\* datetime.combine(target_date, datetime.max.time())
end_datetime(d) == d * DayLen + (DayLen - 1)

\* date.today(): the calendar date on the host's local clock at UTC instant t.
date_today(t, off) == (t + off) \div DayLen
\* The local time of day at UTC instant t.
LocalTimeOfDay(t, off) == (t + off) % DayLen

\* date.today() - timedelta(days=1)
Yesterday(t, off) == date_today(t, off) - 1

\* ------------------------------------------------------------ Aggregator
\* Mutant: the window's end excluded.
InWindow_open(r, d) == r.timestamp >= start_datetime(d) /\ r.timestamp < end_datetime(d)

\* The filter of compute_daily_aggregates: timestamp >= start, <= end.
InWindow(r, d) == r.timestamp >= start_datetime(d) /\ r.timestamp <= end_datetime(d)

\* Mutant: the aggregate taken over the whole table, the filter left out.
WindowRows_all(rows, d) == rows

\* The rows the aggregate query ranges over.
WindowRows(rows, d) == SelectSeq(rows, LAMBDA r : InWindow(r, d))

RECURSIVE SumPh(_)
SumPh(rows) == IF rows = <<>> THEN 0 ELSE Head(rows).ph + SumPh(Tail(rows))
RECURSIVE SumTds(_)
SumTds(rows) == IF rows = <<>> THEN 0 ELSE Head(rows).tds + SumTds(Tail(rows))
RECURSIVE SumTurbidity(_)
SumTurbidity(rows) ==
    IF rows = <<>> THEN 0 ELSE Head(rows).turbidity + SumTurbidity(Tail(rows))
RECURSIVE SumTemperature(_)
SumTemperature(rows) ==
    IF rows = <<>> THEN 0 ELSE Head(rows).temperature + SumTemperature(Tail(rows))

\* Mutant: the `result.count == 0` test left out, the empty window reported
\* as an aggregate of zeros.
compute_daily_aggregates_nocheck(rows, d) ==
    LET w == WindowRows(rows, d)
        n == Len(w)
        m == IF n = 0 THEN 1 ELSE n
    IN  Some([avg_ph          |-> Avg(SumPh(w), m),
              avg_tds         |-> Avg(SumTds(w), m),
              avg_turbidity   |-> Avg(SumTurbidity(w), m),
              avg_temperature |-> Avg(SumTemperature(w), m),
              reading_count   |-> n])

\* compute_daily_aggregates(db, target_date): None when the window is empty.
compute_daily_aggregates(rows, d) ==
    LET w == WindowRows(rows, d)
        n == Len(w)
    IN  IF n = 0
        THEN None
        ELSE Some([avg_ph          |-> Avg(SumPh(w), n),
                   avg_tds         |-> Avg(SumTds(w), n),
                   avg_turbidity   |-> Avg(SumTurbidity(w), n),
                   avg_temperature |-> Avg(SumTemperature(w), n),
                   reading_count   |-> n])

\* ------------------------------------------------------- Classifier Port
\* Mutant: predict without its `is None` test; an unloaded service answers.
PredictRaises_nocheck(svc) ==
    CASE svc = "None"          -> "AttributeError"
      [] svc = "loaded_faulty" -> "ValueError"
      [] OTHER                 -> "none"

\* The exception a call `svc.predict(...)` raises, "none" if it returns.
\* On None the attribute access itself fails; an MLService without
\* artifacts raises RuntimeError; a loaded model may raise from predict.
PredictRaises(svc) ==
    CASE svc = "None"          -> "AttributeError"
      [] svc = "unloaded"      -> "RuntimeError"
      [] svc = "loaded_faulty" -> "ValueError"
      [] OTHER                 -> "none"

\* The frozen model's decision (self.model.predict, then inverse_transform):
\* a fixed function of the features.  The artifact is not part of the
\* repository; here it labels by the mean acidity.
ModelLabel(agg) ==
    IF agg.avg_ph[1] <= 8 * agg.avg_ph[2] THEN "Safe" ELSE "Unsafe"

\* max(predict_proba(features)[0]) in percent, when the model has
\* predict_proba; None otherwise.
ModelConfidence(svc, agg) ==
    IF svc = "loaded_proba"
    THEN Some(IF agg.avg_turbidity[1] <= 4 * agg.avg_turbidity[2] THEN 91 ELSE 75)
    ELSE None

\* ------------------------------------------------------------ the stores
\* Mutant: the row written over the last one stored (a fixed primary key).
create_sensor_reading_overwrite(rows, payload, t) ==
    LET row == [id          |-> IF rows = <<>> THEN 1 ELSE Len(rows),
                ph          |-> payload.ph,
                tds         |-> payload.tds,
                turbidity   |-> payload.turbidity,
                temperature |-> payload.temperature,
                timestamp   |-> t]
    IN  IF rows = <<>> THEN <<row>> ELSE [rows EXCEPT ![Len(rows)] = row]

\* SensorReading(ph=..., ...) with db.add / db.commit: the store assigns the
\* next id, and the column default datetime.utcnow stamps the row.
create_sensor_reading(rows, payload, t) ==
    Append(rows, [id          |-> Len(rows) + 1,
                  ph          |-> payload.ph,
                  tds         |-> payload.tds,
                  turbidity   |-> payload.turbidity,
                  temperature |-> payload.temperature,
                  timestamp   |-> t])

\* db.query(DailyPrediction).filter(date == target_date).first(): the row
\* found, as the session loads it, or None.
FindByDate(store, d) ==
    IF \E i \in 1..Len(store) : store[i].date = d
    THEN Some(store[CHOOSE i \in 1..Len(store) :
                       /\ store[i].date = d
                       /\ \A j \in 1..(i - 1) : store[j].date # d])
    ELSE None

\* Mutant: the date column without its uniqueness constraint.
UniqueViolation_unconstrained(store, d) == FALSE

\* Column(Date, unique=True): an INSERT of a date some row already holds is
\* refused by the storage engine.
UniqueViolation(store, d) == \E i \in 1..Len(store) : store[i].date = d

\* The row the upsert writes from its arguments at instant t.
PredictionRow(rid, d, agg, lab, conf, t) ==
    [id                    |-> rid,
     date                  |-> d,
     avg_ph                |-> agg.avg_ph,
     avg_tds               |-> agg.avg_tds,
     avg_turbidity         |-> agg.avg_turbidity,
     avg_temperature       |-> agg.avg_temperature,
     prediction            |-> lab,
     prediction_confidence |-> conf,
     reading_count         |-> agg.reading_count,
     created_at            |-> t]

\* Mutant: the reading count added to the stored one.
UpdateExisting_summed(store, ex, agg, lab, conf, t) ==
    [i \in 1..Len(store) |->
        IF store[i].id = ex.id
        THEN [PredictionRow(store[i].id, store[i].date, agg, lab, conf, t)
                 EXCEPT !.reading_count = store[i].reading_count + agg.reading_count]
        ELSE store[i]]

\* Mutant: the found row deleted and its replacement added as a new row.
UpdateExisting_reinsert(store, ex, agg, lab, conf, t) ==
    Append(SelectSeq(store, LAMBDA r : r.id # ex.id),
           PredictionRow(Len(store) + 1, ex.date, agg, lab, conf, t))

\* The branch `if existing:` of create_daily_prediction.  ex is the row as
\* the run's session loaded it in the lookup.  Every field but id and date
\* is assigned on that object and db.commit() flushes it: the session's
\* UPDATE sets the columns whose assigned value differs from the loaded one,
\* and leaves a column assigned its loaded value as the table has it.
\* created_at is assigned a fresh datetime.utcnow().
UpdateExisting(store, ex, agg, lab, conf, t) ==
    LET new == PredictionRow(ex.id, ex.date, agg, lab, conf, t)
        Flushed(cur) ==
            [id                    |-> cur.id,
             date                  |-> cur.date,
             avg_ph                |-> IF new.avg_ph # ex.avg_ph
                                       THEN new.avg_ph ELSE cur.avg_ph,
             avg_tds               |-> IF new.avg_tds # ex.avg_tds
                                       THEN new.avg_tds ELSE cur.avg_tds,
             avg_turbidity         |-> IF new.avg_turbidity # ex.avg_turbidity
                                       THEN new.avg_turbidity ELSE cur.avg_turbidity,
             avg_temperature       |-> IF new.avg_temperature # ex.avg_temperature
                                       THEN new.avg_temperature
                                       ELSE cur.avg_temperature,
             prediction            |-> IF new.prediction # ex.prediction
                                       THEN new.prediction ELSE cur.prediction,
             prediction_confidence |-> IF new.prediction_confidence
                                              # ex.prediction_confidence
                                       THEN new.prediction_confidence
                                       ELSE cur.prediction_confidence,
             reading_count         |-> IF new.reading_count # ex.reading_count
                                       THEN new.reading_count ELSE cur.reading_count,
             created_at            |-> t]
    IN  [i \in 1..Len(store) |->
            IF store[i].id = ex.id THEN Flushed(store[i]) ELSE store[i]]

\* The branch `else:` of create_daily_prediction: a new row, its id assigned
\* by the store and created_at by the column default.
InsertNew(store, d, agg, lab, conf, t) ==
    Append(store, PredictionRow(Len(store) + 1, d, agg, lab, conf, t))

\* Mutant: an insert that meets a row of its date writes over that row
\* (INSERT OR REPLACE) and succeeds.
UpsertWrite_replace(store, ex, d, agg, lab, conf, t) ==
    IF ex # None
    THEN [store |-> UpdateExisting(store, ex[1], agg, lab, conf, t), raised |-> "none"]
    ELSE IF UniqueViolation(store, d)
         THEN [store  |-> UpdateExisting(store, FindByDate(store, d)[1],
                                         agg, lab, conf, t),
               raised |-> "none"]
         ELSE [store |-> InsertNew(store, d, agg, lab, conf, t), raised |-> "none"]

\* The write half of create_daily_prediction, given the lookup's result ex:
\* the store after a successful commit and the exception raised, if any.
UpsertWrite(store, ex, d, agg, lab, conf, t) ==
    IF ex # None
    THEN [store |-> UpdateExisting(store, ex[1], agg, lab, conf, t), raised |-> "none"]
    ELSE IF UniqueViolation(store, d)
         THEN [store |-> store, raised |-> "IntegrityError"]
         ELSE [store |-> InsertNew(store, d, agg, lab, conf, t), raised |-> "none"]

\* What the storage engine may answer to a commit: done, or refused (the
\* database is locked, the disk is full).
CommitOutcomes == {"ok", "OperationalError"}

\* What the storage engine may answer to a SELECT (a query's .first(), the
\* reload of db.refresh): the rows, or refused (the database is locked).
SelectOutcomes == {"ok", "OperationalError"}

\* The exceptions a refused statement raises.
Refused(outcomes) == outcomes \ {"ok"}

\* Mutant: the changes of a refused commit left in the table.
Commit_partial(store, written, c) == written

\* db.commit() answered c, then db.close() (the job's `finally`, get_db's
\* for a handler): the committed table.  A refused commit leaves the table
\* as it was, and closing the session discards what it had pending.
Commit(store, written, c) == IF c = "ok" THEN written ELSE store

\* The end of a session's transaction (db.commit(), or the rollback of a
\* refused one) expires the instances the session holds: the column values
\* it loaded are discarded and the instance keeps its identity.
Expired(ex) == IF ex = None THEN None ELSE Some([id |-> ex[1].id])

\* ------------------------------------------------------------- Daily Job
Terminal == {"Completed", "SkippedNoData", "Failed", "raised"}
Running(p) == pc[p] \in {"aggregate", "predict", "lookup", "write", "refresh"}

\* Mutant: `except RuntimeError`.
except_RuntimeError(e) == e = "RuntimeError"

\* `except Exception as e:` of run_daily_prediction: the exceptions it catches.
except_Exception(e) ==
    e \in {"AttributeError", "RuntimeError", "ValueError", "IntegrityError",
           "OperationalError"}

\* An exception e raised inside the try block of thread p's run.
Raise(p, e) ==
    /\ pc' = [pc EXCEPT ![p] = IF except_Exception(e) THEN "Failed" ELSE "raised"]
    /\ err' = [err EXCEPT ![p] = e]

\* Step 1: aggregates = compute_daily_aggregates(db, yesterday); return if
\* None.  The aggregate is one SELECT, which the storage engine may refuse.
StepAggregate(p) ==
    /\ \/ \E q \in Refused(SelectOutcomes) :
             /\ Raise(p, q)
             /\ UNCHANGED aggregates
       \/ \E a \in {compute_daily_aggregates(readings, target[p])} :
             /\ aggregates' = [aggregates EXCEPT ![p] = a]
             /\ pc' = [pc EXCEPT ![p] =
                           IF a = None THEN "SkippedNoData" ELSE "predict"]
             /\ UNCHANGED err
    /\ response' = None
    /\ UNCHANGED <<now, tzOffset, readings, predictions, target, label,
                   confidence, existing, db_reading, cronFired, process>>

\* Step 2: prediction_label, confidence = ml_service.predict(...), where
\* ml_service is the name scheduler_service imported.
StepPredict(p) ==
    LET e == PredictRaises(sched_ml)
    IN  /\ IF e # "none"
           THEN /\ Raise(p, e)
                /\ UNCHANGED <<label, confidence>>
           ELSE /\ label' = [label EXCEPT ![p] = ModelLabel(aggregates[p][1])]
                /\ confidence' = [confidence EXCEPT ![p] =
                                      ModelConfidence(sched_ml, aggregates[p][1])]
                /\ pc' = [pc EXCEPT ![p] = "lookup"]
                /\ UNCHANGED err
        /\ response' = None
        /\ UNCHANGED <<now, tzOffset, readings, predictions, target, aggregates,
                       existing, db_reading, cronFired, process>>

\* Step 3, first statement of create_daily_prediction: the lookup by date,
\* a SELECT the storage engine may refuse.
StepLookup(p) ==
    /\ \/ \E q \in Refused(SelectOutcomes) :
             /\ Raise(p, q)
             /\ UNCHANGED existing
       \/ /\ existing' = [existing EXCEPT ![p] =
                              FindByDate(predictions, target[p])]
          /\ pc' = [pc EXCEPT ![p] = "write"]
          /\ UNCHANGED err
    /\ response' = None
    /\ UNCHANGED <<now, tzOffset, readings, predictions, target, aggregates,
                   label, confidence, db_reading, cronFired, process>>

\* Step 3, the middle of create_daily_prediction: assign or add, then commit.
\* The commit sends the UPDATE or the INSERT.  The storage engine may refuse
\* the statement before it looks at the rows (the database is locked); when
\* it takes the statement, an INSERT of a date already stored is refused on
\* the unique index.
StepWrite(p) ==
    LET w == UpsertWrite(predictions, existing[p], target[p], aggregates[p][1],
                         label[p], confidence[p], now)
    IN  /\ \/ \E c \in Refused(CommitOutcomes) :
                  /\ predictions' = Commit(predictions, w.store, c)
                  /\ Raise(p, c)
           \/ /\ predictions' = Commit(predictions, w.store, "ok")
              /\ IF w.raised # "none"
                 THEN Raise(p, w.raised)
                 ELSE /\ pc' = [pc EXCEPT ![p] = "refresh"]
                      /\ UNCHANGED err
        /\ existing' = [existing EXCEPT ![p] = Expired(existing[p])]
        /\ response' = None
        /\ UNCHANGED <<now, tzOffset, readings, target, aggregates, label,
                       confidence, db_reading, cronFired, process>>

\* Step 3, the end of create_daily_prediction, after the commit: db.refresh
\* reloads the written row with a SELECT and the row is returned to the job,
\* which logs it.  A refused reload raises with the write already committed.
StepRefresh(p) ==
    /\ \/ \E q \in Refused(SelectOutcomes) : Raise(p, q)
       \/ /\ pc' = [pc EXCEPT ![p] = "Completed"]
          /\ UNCHANGED err
    /\ response' = None
    /\ UNCHANGED <<now, tzOffset, readings, predictions, target, aggregates,
                   label, confidence, existing, db_reading, cronFired, process>>

\* What trigger_prediction_manually answers once its call of
\* run_daily_prediction has ended in state outcome with exception e: the
\* `return` after the call when the call returned, the HTTPException of the
\* handler's `except` when it raised.
TriggerResponse(outcome, e) ==
    IF outcome = "raised"
    THEN [handler |-> "trigger_prediction_manually", status |-> 500, body |-> e]
    ELSE [handler |-> "trigger_prediction_manually", status |-> 200,
          body |-> "Daily prediction triggered successfully"]

\* db.close() and the return to the caller: the run's locals are gone.  The
\* scheduler's thread drops the return value; the trigger handler answers.
StepReturn(p) ==
    /\ pc' = [pc EXCEPT ![p] = "idle"]
    /\ target' = [target EXCEPT ![p] = 0]
    /\ aggregates' = [aggregates EXCEPT ![p] = None]
    /\ label' = [label EXCEPT ![p] = ""]
    /\ confidence' = [confidence EXCEPT ![p] = None]
    /\ existing' = [existing EXCEPT ![p] = None]
    /\ err' = [err EXCEPT ![p] = "none"]
    /\ response' = IF p = "manual" THEN Some(TriggerResponse(pc[p], err[p])) ELSE None
    /\ UNCHANGED <<now, tzOffset, readings, predictions, db_reading, cronFired,
                   process>>

\* One step of thread p's call of run_daily_prediction.
run_daily_prediction(p) ==
    /\ pc[p] # "idle"
    /\ CASE pc[p] = "aggregate" -> StepAggregate(p)
         [] pc[p] = "predict"   -> StepPredict(p)
         [] pc[p] = "lookup"    -> StepLookup(p)
         [] pc[p] = "write"     -> StepWrite(p)
         [] pc[p] = "refresh"   -> StepRefresh(p)
         [] OTHER               -> StepReturn(p)

\* CronTrigger(hour=0, minute=0): a firing is due at each local midnight while
\* the scheduler runs, and happens before the clock moves on.
CronDue == scheduler = "running" /\ LocalTimeOfDay(now, tzOffset) = 0 /\ ~cronFired

\* The server hands requests to the handlers once the startup half of
\* lifespan has completed and until the shutdown half begins.
Serving == phase = "running"

\* The event loop runs one handler at a time: it is free when neither the
\* trigger handler nor an ingestion is in progress on it.
LoopFree == pc["manual"] = "idle" /\ db_reading = None

\* Whether thread p may enter run_daily_prediction now.  The cron trigger
\* (hour=0, minute=0, local time) fires once per local midnight while the
\* scheduler runs; the trigger endpoint is served when the event loop is free.
MayTrigger(p) ==
    IF p = "scheduler"
    THEN CronDue
    ELSE Serving /\ LoopFree

\* Entry of run_daily_prediction: yesterday = date.today() - timedelta(days=1)
\* and db = SessionLocal().  A cron firing while the previous instance of the
\* job still runs is skipped (APScheduler's max_instances = 1).
Trigger(p) ==
    /\ MayTrigger(p)
    /\ cronFired' = IF p = "scheduler" THEN TRUE ELSE cronFired
    /\ IF pc[p] = "idle"
       THEN /\ pc' = [pc EXCEPT ![p] = "aggregate"]
            /\ target' = [target EXCEPT ![p] = Yesterday(now, tzOffset)]
       ELSE UNCHANGED <<pc, target>>
    /\ response' = None
    /\ UNCHANGED <<now, tzOffset, readings, predictions, aggregates, label,
                   confidence, existing, err, db_reading, process>>

\* ------------------------------------------------------------- ingestion
\* The payload of a stored reading.
PayloadOf(row) ==
    [ph |-> row.ph, tds |-> row.tds, turbidity |-> row.turbidity,
     temperature |-> row.temperature]

\* POST /api/readings: crud.create_sensor_reading, served by the event loop,
\* in two steps.  The first is db.add and db.commit: a committed row is in
\* the table from then on, for the scheduler's thread as well, and a refused
\* commit raises into the handler's `except Exception`, which answers 500.
\* The second is db.refresh, a SELECT, and the answer: 201 with the row as
\* reloaded, or 500 when the reload is refused, the row stored all the same.
submit_sensor_reading(payload) ==
    /\ Serving
    /\ pc["manual"] = "idle"
    /\ IF db_reading = None
       THEN /\ Len(readings) < MaxReadings
            /\ \E c \in CommitOutcomes :
                  /\ readings' = Commit(readings,
                                        create_sensor_reading(readings, payload, now),
                                        c)
                  /\ IF c = "ok"
                     THEN /\ db_reading' = Some(readings'[Len(readings')].id)
                          /\ response' = None
                     ELSE /\ db_reading' = None
                          /\ response' =
                                 Some([handler |-> "submit_sensor_reading",
                                       status |-> 500,
                                       body |-> "Failed to save sensor reading"])
       ELSE LET row == readings[CHOOSE i \in 1..Len(readings) :
                                    readings[i].id = db_reading[1]]
            IN  /\ payload = PayloadOf(row)
                /\ \E q \in SelectOutcomes :
                      response' =
                          IF q = "ok"
                          THEN Some([handler |-> "submit_sensor_reading",
                                     status |-> 201,
                                     body |-> row])
                          ELSE Some([handler |-> "submit_sensor_reading",
                                     status |-> 500,
                                     body |-> "Failed to save sensor reading"])
                /\ db_reading' = None
                /\ UNCHANGED readings
    /\ UNCHANGED <<now, tzOffset, predictions, pc, jobLocals, cronFired, process>>

\* --------------------------------------------------------------- queries
\* query(SensorReading).order_by(timestamp.desc()).first(): the row the
\* query may return, None on an empty table.  Among rows stamped with the
\* same instant the ordering does not say which comes first.
get_latest_sensor_reading(rows) ==
    IF rows = <<>>
    THEN {None}
    ELSE {Some(rows[i]) : i \in {k \in 1..Len(rows) :
                 \A j \in 1..Len(rows) : rows[j].timestamp <= rows[k].timestamp}}

\* Mutant: ordered by id instead of date, the row stored last.
get_latest_daily_prediction_by_id(store) ==
    IF store = <<>> THEN {None} ELSE {Some(store[Len(store)])}

\* query(DailyPrediction).order_by(date.desc()).first().
get_latest_daily_prediction(store) ==
    IF store = <<>>
    THEN {None}
    ELSE {Some(store[i]) : i \in {k \in 1..Len(store) :
                 \A j \in 1..Len(store) : store[j].date <= store[k].date}}

\* None of the query handlers catches what its SELECT raises: the handler
\* sends no answer, and the server under it answers the request in its place.
ServerError ==
    [handler |-> "server", status |-> 500, body |-> "Internal Server Error"]

\* GET /api/readings/latest: 404 when the query returns None.
get_latest_reading ==
    /\ Serving
    /\ LoopFree
    /\ \/ \E q \in Refused(SelectOutcomes) :
             response' = Some(ServerError)
       \/ \E reading \in get_latest_sensor_reading(readings) :
             response' =
                 IF reading = None
                 THEN Some([handler |-> "get_latest_reading", status |-> 404,
                            body |-> "No sensor readings found"])
                 ELSE Some([handler |-> "get_latest_reading", status |-> 200,
                            body |-> reading[1]])
    /\ UNCHANGED <<now, tzOffset, readings, predictions, pc, jobLocals,
                   db_reading, cronFired, process>>

\* GET /api/predictions/latest: 404 when the query returns None.
get_latest_prediction ==
    /\ Serving
    /\ LoopFree
    /\ \/ \E q \in Refused(SelectOutcomes) :
             response' = Some(ServerError)
       \/ \E prediction \in get_latest_daily_prediction(predictions) :
             response' =
                 IF prediction = None
                 THEN Some([handler |-> "get_latest_prediction", status |-> 404,
                            body |-> "No predictions found"])
                 ELSE Some([handler |-> "get_latest_prediction", status |-> 200,
                            body |-> prediction[1]])
    /\ UNCHANGED <<now, tzOffset, readings, predictions, pc, jobLocals,
                   db_reading, cronFired, process>>

\* GET /api/dashboard: both queries in one answer, either part may be None;
\* no answer of the handler's when either SELECT is refused.
get_dashboard_data ==
    /\ Serving
    /\ LoopFree
    /\ \/ \E q \in Refused(SelectOutcomes) :
             response' = Some(ServerError)
       \/ \E latest_reading \in get_latest_sensor_reading(readings) :
             \E latest_prediction \in get_latest_daily_prediction(predictions) :
                 response' =
                     Some([handler |-> "get_dashboard_data", status |-> 200,
                           body |-> [latest_reading    |-> latest_reading,
                                     latest_prediction |-> latest_prediction]])
    /\ UNCHANGED <<now, tzOffset, readings, predictions, pc, jobLocals,
                   db_reading, cronFired, process>>

\* --------------------------------------------------------------- startup
\* Lines 63-64 of lifespan: `import app.ml_service` rebinds the local name
\* `app` (the FastAPI parameter) to the package `app`, so `app.state` in the
\* assignment that follows is looked up on the package and raises.
PublishRaises == TRUE

\* What joblib.load makes of the model's path: no file, a file that does
\* not unpickle, or a file that unpickles to whatever was dumped into it:
\* None, a classifier with predict_proba, a classifier without it, or an
\* object whose predict raises.
ModelFiles == {"missing", "corrupt", "None", "classifier", "plain", "faulty"}

\* The same of the label encoder's path: None, a fitted encoder, or an
\* object without the attribute classes_.
EncoderFiles == {"missing", "corrupt", "None", "encoder", "no_classes"}

\* What is under ml_artifacts/: the model's pickle and the label encoder's.
Artifacts == [model : ModelFiles, encoder : EncoderFiles]

\* joblib.load(path) raises: the file is not there or does not unpickle.
JoblibRaises(file) == file \in {"missing", "corrupt"}

\* The MLService whose attributes are the two unpickled objects, as predict
\* finds it: unloaded when either is None (its `is None` test), faulty when
\* the model's predict raises; an encoder without classes_ may or may not
\* answer inverse_transform.
ServiceOf(model, encoder) ==
    LET kind == IF model = "classifier" THEN "loaded_proba" ELSE "loaded_plain"
    IN  IF model = "None" \/ encoder = "None" THEN {"unloaded"}
        ELSE IF model = "faulty" THEN {"loaded_faulty"}
        ELSE IF encoder = "no_classes" THEN {kind, "loaded_faulty"}
        ELSE {kind}

\* MLService.load_artifacts on a fresh MLService: the outcomes it can have,
\* each the service afterwards and whether the call raised.  A failing
\* joblib.load (of the model, or of the encoder after it) is logged and
\* re-raised, and leaves label_encoder, or both attributes, None.  What the
\* two files unpickle to is stored as it comes, None included; the try block
\* then logs type(self.model).__name__, which any object answers, and
\* self.label_encoder.classes_, which raises on None and on an object
\* without that attribute: logged and re-raised, the attributes left set.
\* With any other pair of objects the call returns, whatever predict will
\* make of them.
load_artifacts(artifact) ==
    IF JoblibRaises(artifact.model) \/ JoblibRaises(artifact.encoder)
    THEN {[service |-> "unloaded", raised |-> TRUE]}
    ELSE {[service |-> s,
           raised  |-> artifact.encoder \in {"None", "no_classes"}] :
             s \in ServiceOf(artifact.model, artifact.encoder)}

\* The startup half of lifespan, up to `yield`.  An exception ends it where
\* it is raised: in create_all ("create_failed"), in load_artifacts
\* ("load_failed") or in the assignment that publishes the service
\* ("publish_failed"); start_scheduler comes last.  The server serves no
\* request when startup has raised.
Startup ==
    /\ phase = "imported"
    /\ \E c \in CommitOutcomes :
          IF c # "ok"
          THEN /\ phase' = "create_failed"
               /\ UNCHANGED <<app_state_ml, module_ml, scheduler>>
          ELSE \E loaded \in load_artifacts(artifacts) :
                   /\ app_state_ml' = loaded.service
                   /\ IF loaded.raised
                      THEN /\ phase' = "load_failed"
                           /\ UNCHANGED <<module_ml, scheduler>>
                      ELSE IF PublishRaises
                           THEN /\ phase' = "publish_failed"
                                /\ UNCHANGED <<module_ml, scheduler>>
                           ELSE /\ module_ml' = loaded.service
                                /\ scheduler' = "running"
                                /\ phase' = "running"

\* The shutdown half of lifespan, after `yield`: the server has let the
\* requests in flight finish; stop_scheduler calls scheduler.shutdown(),
\* after which no cron firing happens, and which waits for a job that is
\* running ("stopping") before it returns ("stopped").
Shutdown ==
    \/ /\ phase = "running"
       /\ LoopFree
       /\ scheduler' = IF scheduler = "None" THEN "None" ELSE "stopped"
       /\ phase' = IF pc["scheduler"] = "idle" THEN "stopped" ELSE "stopping"
       /\ UNCHANGED <<app_state_ml, module_ml>>
    \/ /\ phase = "stopping"
       /\ pc["scheduler"] = "idle"
       /\ phase' = "stopped"
       /\ UNCHANGED <<app_state_ml, module_ml, scheduler>>

\* lifespan(app): the startup half when the process has been imported, the
\* shutdown half when the application is up.
lifespan ==
    /\ Startup \/ Shutdown
    /\ response' = None
    /\ UNCHANGED <<now, tzOffset, readings, predictions, pc, jobLocals,
                   db_reading, cronFired, artifacts, sched_ml>>

\* ----------------------------------------------------------------- clock
Tick ==
    /\ now < MaxTime
    /\ ~CronDue
    /\ now' = now + 1
    /\ cronFired' = FALSE
    /\ response' = None
    /\ UNCHANGED <<tzOffset, readings, predictions, pc, jobLocals, db_reading,
                   process>>

\* -------------------------------------------------------- specifications
\* The process starts with both tables empty, in the second half of UTC day
\* 0: the days 0 and 1 both get readings before the clock stops, and each
\* becomes some run's yesterday.
InitStores ==
    /\ now = DayLen - 1
    /\ tzOffset \in TzOffsets
    /\ readings = <<>>
    /\ predictions = <<>>
    /\ pc = [p \in Procs |-> "idle"]
    /\ target = [p \in Procs |-> 0]
    /\ aggregates = [p \in Procs |-> None]
    /\ label = [p \in Procs |-> ""]
    /\ confidence = [p \in Procs |-> None]
    /\ existing = [p \in Procs |-> None]
    /\ err = [p \in Procs |-> "none"]
    /\ db_reading = None
    /\ cronFired = FALSE
    /\ response = None

\* The application up, as the startup half of lifespan is written to leave
\* it: the tables created, the service loaded and published, the scheduler
\* started; scheduler_service.ml_service is whatever the driver bound it to.
\* This is the specification of the pipeline's functions over the classifier
\* bindings they can be given (the classifier without predict_proba is bound
\* in SpecQuery below); the application's own startup (SpecApp) does not get
\* this far.
Init ==
    /\ InitStores
    /\ phase = "running"
    /\ artifacts = [model |-> "classifier", encoder |-> "encoder"]
    /\ scheduler = "running"
    /\ app_state_ml = "loaded_proba"
    /\ module_ml = "loaded_proba"
    /\ sched_ml \in ServiceStates \ {"loaded_plain"}

Next ==
    \/ Tick
    \/ \E payload \in Payloads : submit_sensor_reading(payload)
    \/ \E p \in Procs : Trigger(p)
    \/ \E p \in Procs : run_daily_prediction(p)

Spec == Init /\ [][Next]_vars

\* The process as main.py builds it: every module imported, lifespan not
\* yet entered, the artifact files as the disk has them.
InitApp ==
    /\ InitStores
    /\ phase = "imported"
    /\ artifacts \in Artifacts
    /\ scheduler = "None"
    /\ app_state_ml = "None"
    /\ module_ml = "None"
    /\ sched_ml = "None"

\* The server runs lifespan before it serves; the handlers and the job are
\* reached only in phase "running", which this startup does not reach.
NextApp == lifespan \/ Tick

SpecApp == InitApp /\ [][NextApp]_vars

\* The application up with a classifier that labels, with or without
\* predict_proba, loaded and published.  scheduler_service.ml_service is
\* None, as its from-import binds it and lifespan leaves it (every run over
\* a non-empty window fails in the classifier call and nothing is stored),
\* or the loaded service, when the driver has bound it where the job looks
\* for it: its runs store records, with a confidence or without.
InitQuery ==
    /\ InitStores
    /\ phase = "running"
    /\ \E model \in {"classifier", "plain"} :
          /\ artifacts = [model |-> model, encoder |-> "encoder"]
          /\ app_state_ml \in ServiceOf(model, "encoder")
    /\ scheduler = "running"
    /\ module_ml = app_state_ml
    /\ sched_ml \in {"None", app_state_ml}

\* The payload posted while the queries are served: they order by timestamp
\* and by date, which no measured value enters.
QueryPayloads == {CHOOSE payload \in Payloads : TRUE}

\* The whole application as it serves: the clock, the ingestion, the cron
\* job and the manual trigger's run, which fill the two stores in every
\* order their steps interleave in, and the three query handlers.
NextQuery ==
    \/ Tick
    \/ \E payload \in QueryPayloads : submit_sensor_reading(payload)
    \/ \E p \in Procs : Trigger(p)
    \/ \E p \in Procs : run_daily_prediction(p)
    \/ get_latest_reading
    \/ get_latest_prediction
    \/ get_dashboard_data

SpecQuery == InitQuery /\ [][NextQuery]_vars

\* The application up on a host ahead of UTC, where the cron firings come
\* within the window of the date they target and the runs of one day and of
\* the next target different dates.  The shutdown reads no local date.
InitAhead ==
    /\ Init
    /\ tzOffset = 1

\* The pipeline with the application's shutdown.
NextLife == Next \/ lifespan

SpecLife == InitAhead /\ [][NextLife]_vars

\* ================================================================ claims
\* The window [start(D), end(D)] of date D as the specification states it:
\* the first and the last instant of that day.
DayStart(d) == d * DayLen
DayEnd(d) == (d + 1) * DayLen - 1
\* The positions of the readings whose timestamp lies in D's window.
InDay(d) ==
    {i \in 1..Len(readings) :
        DayStart(d) <= readings[i].timestamp /\ readings[i].timestamp <= DayEnd(d)}

Other(p) == CHOOSE q \in Procs : q # p
\* Thread p takes a step of its run.
Steps(p) == pc'[p] # pc[p]
\* The positions of the stored predictions for date d.
RowsFor(store, d) == {i \in 1..Len(store) : store[i].date = d}

\* C1: in every reachable state no two DailyPrediction rows share a date,
\* whatever the order in which scheduled and manual runs interleave their
\* lookup and write steps.
C1_UniqueDate ==
    \A i, j \in 1..Len(predictions) :
        i # j => predictions[i].date # predictions[j].date

\* Two overlapping runs for one date both found no row; one insert committed
\* and the other was refused by the uniqueness constraint.
C1_Witness ==
    \E p \in Procs :
        /\ pc[p] = "Completed" /\ existing[p] = None
        /\ pc[Other(p)] = "Failed" /\ err[Other(p)] = "IntegrityError"
        /\ existing[Other(p)] = None
        /\ target[p] = target[Other(p)]
        /\ Cardinality(RowsFor(predictions, target[p])) = 1

\* C2 (as claimed): at most one run per target date is Running at any time.
C2_SingleFlight ==
    \A p \in Procs :
        (Running(p) /\ Running(Other(p))) => target[p] # target[Other(p)]

\* C3: a run for a date with no reading in its window, its aggregate query
\* answered, ends SkippedNoData, and no step of that run (entry,
\* aggregation, return) changes the Prediction Store, nor does the
\* aggregation step of a run whose query is refused; a run with a reading
\* in the window is not skipped.
C3_SkipLeavesStore ==
    [][\A p \in Procs :
          /\ (pc[p] = "aggregate" /\ Steps(p)) =>
                 IF InDay(target[p]) = {}
                 THEN /\ \/ pc'[p] = "SkippedNoData"
                         \/ pc'[p] = "Failed" /\ err'[p] \in SelectOutcomes
                      /\ predictions' = predictions
                 ELSE pc'[p] # "SkippedNoData"
          /\ (Steps(p) /\ (pc'[p] = "aggregate" \/ pc[p] = "SkippedNoData")) =>
                 predictions' = predictions]_vars

\* A run was skipped while the Prediction Store held a record.
C3_Witness ==
    \E p \in Procs :
        /\ pc[p] = "SkippedNoData"
        /\ InDay(target[p]) = {}
        /\ Len(predictions) > 0

\* The classifier call of the job cannot return a label: the service is not
\* there, its artifacts are not loaded, or the model's predict raises.
ClassifierFails == sched_ml \notin {"loaded_proba", "loaded_plain"}

\* C4: when the classification step fails the run ends Failed, and no step
\* of a run before its write step changes the Prediction Store, so a run
\* that fails in classification leaves the store as it found it.
C4_ClassifierFailureLeavesStore ==
    [][\A p \in Procs :
          /\ (pc[p] = "predict" /\ Steps(p) /\ ClassifierFails) =>
                 pc'[p] = "Failed" /\ predictions' = predictions
          /\ (Steps(p) /\ pc[p] \in {"idle", "aggregate", "predict"}) =>
                 predictions' = predictions
          /\ (Steps(p) /\ pc[p] = "Failed") => predictions' = predictions]_vars

\* A run over a non-empty window failed in the classifier call.
C4_Witness ==
    \E p \in Procs :
        /\ pc[p] = "Failed"
        /\ err[p] \in {"AttributeError", "RuntimeError", "ValueError"}
        /\ aggregates[p] # None
        /\ InDay(target[p]) # {}

\* C5 (as claimed): a startup whose load_artifacts has loaded the classifier
\* artifact and returned goes on to run the job with it: the application
\* comes up, the scheduler is started, and the classifier the job calls
\* answers with a label.
C5_LoadedThenClassified ==
    [][(/\ phase = "imported"
        /\ app_state_ml' = "loaded_proba"
        /\ phase' # "load_failed") =>
           /\ phase' = "running"
           /\ scheduler' = "running"
           /\ PredictRaises(sched_ml') = "none"]_vars

\* How far a run has come.
Rank(s) ==
    CASE s = "idle"      -> 0
      [] s = "aggregate" -> 1
      [] s = "predict"   -> 2
      [] s = "lookup"    -> 3
      [] s = "write"     -> 4
      [] s = "refresh"   -> 5
      [] OTHER           -> 6

\* C6: no failure inside a run reaches the caller; a started run can always
\* take its next step, every step moves it strictly forward, it ends in one
\* of Completed, SkippedNoData and Failed and then returns to idle; the
\* scheduler, once running, keeps running until the application is shut
\* down (no step of a run, of a trigger or of a handler stops it), and a
\* cron firing that is due can be taken whatever the manual trigger is doing.
C6_RunsEndAndSchedulerSurvives ==
    /\ [](\A p \in Procs : pc[p] # "raised")
    /\ [](\A p \in Procs : pc[p] # "idle" => ENABLED run_daily_prediction(p))
    /\ [](CronDue => ENABLED Trigger("scheduler"))
    /\ [][/\ \A p \in Procs :
               Steps(p) =>
                   \/ Rank(pc'[p]) > Rank(pc[p])
                   \/ /\ pc[p] \in {"Completed", "SkippedNoData", "Failed"}
                      /\ pc'[p] = "idle"
          /\ (scheduler = "running" /\ phase' = phase) =>
                 scheduler' = "running"]_vars

\* The scheduler's run failed in aggregation, its query refused, while a
\* manual run for the same date has failed after its lookup, on the commit
\* or the reload; the scheduler is still running.
C6_Witness ==
    /\ scheduler = "running"
    /\ pc["scheduler"] = "Failed" /\ err["scheduler"] = "OperationalError"
    /\ aggregates["scheduler"] = None
    /\ pc["manual"] = "Failed" /\ err["manual"] = "OperationalError"
    /\ existing["manual"] # None
    /\ target["manual"] = target["scheduler"]

\* The stored row for date d (one exists).
RowOf(store, d) == store[CHOOSE i \in RowsFor(store, d) : TRUE]
\* The aggregate a stored row was written from.
AggOf(row) ==
    [avg_ph          |-> row.avg_ph,
     avg_tds         |-> row.avg_tds,
     avg_turbidity   |-> row.avg_turbidity,
     avg_temperature |-> row.avg_temperature,
     reading_count   |-> row.reading_count]
\* Thread p commits the write of a second run in sequence for its date: no
\* other run is in progress, a row for the date is stored, and that row is
\* as a first run over the same readings wrote it (its means and count are
\* those this run aggregated, its label and confidence those the classifier
\* gives for them). A row that two overlapping runs left with the means of
\* one and the label of the other (C21) is not the row of a first run.
SecondRunCommits(p) ==
    /\ pc[p] = "write" /\ pc'[p] = "refresh"
    /\ pc[Other(p)] = "idle"
    /\ RowsFor(predictions, target[p]) # {}
    /\ AggOf(RowOf(predictions, target[p])) = aggregates[p][1]
    /\ RowOf(predictions, target[p]).prediction = label[p]
    /\ RowOf(predictions, target[p]).prediction_confidence = confidence[p]

\* C7 (as claimed): after the second of two runs in sequence for a date with
\* unchanged readings there is exactly one row for the date and every field
\* of it is as the first run left it.
C7_SecondRunLeavesRowEqual ==
    [][\A p \in Procs :
          SecondRunCommits(p) =>
              /\ Cardinality(RowsFor(predictions', target[p])) = 1
              /\ RowOf(predictions', target[p]) = RowOf(predictions, target[p])]_vars

\* C7 (amended): after the second of two completed runs in sequence for a
\* date with unchanged readings there is exactly one row for the date, and
\* every field of it but created_at is as the first run left it; created_at
\* is the instant of the second run's write.
C7_SecondRunLeavesRowEqualButStamp ==
    [][\A p \in Procs :
          SecondRunCommits(p) =>
              /\ Cardinality(RowsFor(predictions', target[p])) = 1
              /\ RowOf(predictions', target[p]) =
                     [RowOf(predictions, target[p]) EXCEPT !.created_at = now]]_vars

\* A run that found the row of its date has completed with no other run
\* in progress: the row holds what the run computed over the readings of
\* the window, all of them, and is stamped with this instant, which is not
\* the first.
C7_Witness ==
    \E p \in Procs :
        /\ pc[p] = "Completed" /\ existing[p] # None
        /\ pc[Other(p)] = "idle"
        /\ now >= 2
        /\ RowsFor(predictions, target[p]) # {}
        /\ RowOf(predictions, target[p]).id = existing[p][1].id
        /\ RowOf(predictions, target[p]).created_at = now
        /\ AggOf(RowOf(predictions, target[p])) = aggregates[p][1]
        /\ RowOf(predictions, target[p]).prediction = label[p]
        /\ RowOf(predictions, target[p]).prediction_confidence = confidence[p]
        /\ Cardinality(InDay(target[p])) = aggregates[p][1].reading_count

\* C8 (as claimed): a write step never changes the id or the date of a stored row, never
\* touches the rows of other dates and never leaves two rows for its date.
\* When it commits on a date that has a row, the store keeps its size and
\* that row holds the run's four means, label, confidence and reading count;
\* when it commits on a date without a row, the store holds exactly one new
\* row, for that date, with a fresh id and the run's values.
C8_UpsertInPlace ==
    [][\A p \in Procs :
          (pc[p] = "write" /\ Steps(p)) =>
              LET d == target[p]
                  a == aggregates[p][1]
                  n == Len(predictions)
              IN  /\ Len(predictions') >= n
                  /\ \A i \in 1..n :
                        /\ predictions'[i].id = predictions[i].id
                        /\ predictions'[i].date = predictions[i].date
                        /\ predictions[i].date # d => predictions'[i] = predictions[i]
                  /\ Cardinality(RowsFor(predictions', d)) <= 1
                  /\ pc'[p] = "refresh" =>
                        /\ Cardinality(RowsFor(predictions', d)) = 1
                        /\ AggOf(RowOf(predictions', d)) = a
                        /\ RowOf(predictions', d).prediction = label[p]
                        /\ RowOf(predictions', d).prediction_confidence = confidence[p]
                        /\ IF RowsFor(predictions, d) # {}
                           THEN Len(predictions') = n
                           ELSE /\ Len(predictions') = n + 1
                                /\ \A i \in 1..n :
                                      predictions[i].id # predictions'[n + 1].id]_vars

\* The sum of column col over the readings at the positions in S.
RECURSIVE ColumnSum(_, _)
ColumnSum(S, col) ==
    IF S = {}
    THEN 0
    ELSE LET i == CHOOSE x \in S : TRUE
         IN  readings[i][col] + ColumnSum(S \ {i}, col)
\* The rational m equals total / n.
IsMean(m, total, n) == m[2] > 0 /\ m[1] * n = m[2] * total

\* C9: the aggregate a run's query returns over a non-empty window holds, for each
\* of the four parameters, the arithmetic mean over exactly the readings
\* stamped within [start(D), end(D)], both ends included, and their count.
C9_MeansOverWindow ==
    [][\A p \in Procs :
          (/\ pc[p] = "aggregate" /\ Steps(p)
           /\ pc'[p] # "Failed"
           /\ InDay(target[p]) # {}) =>
              LET S == InDay(target[p])
                  n == Cardinality(S)
                  a == aggregates'[p][1]
              IN  /\ aggregates'[p] # None
                  /\ a.reading_count = n
                  /\ IsMean(a.avg_ph, ColumnSum(S, "ph"), n)
                  /\ IsMean(a.avg_tds, ColumnSum(S, "tds"), n)
                  /\ IsMean(a.avg_turbidity, ColumnSum(S, "turbidity"), n)
                  /\ IsMean(a.avg_temperature, ColumnSum(S, "temperature"), n)]_vars

\* A run has aggregated a window holding a reading at its last instant and
\* none other, while a reading stamped outside the window is stored.
C9_Witness ==
    \E p \in Procs :
        /\ pc[p] = "predict"
        /\ Len(readings) = 2
        /\ Cardinality(InDay(target[p])) = 1
        /\ \E i \in InDay(target[p]) : readings[i].timestamp = DayEnd(target[p])
        /\ aggregates[p][1].reading_count = 1

\* C10 (as claimed): a scheduler-driven run entered at instant t targets the
\* UTC calendar day before t's UTC date.
C10_TargetIsUtcYesterday ==
    [][(pc["scheduler"] = "idle" /\ pc'["scheduler"] = "aggregate") =>
           target'["scheduler"] = (now \div DayLen) - 1]_vars

\* The states a run can end in, as the specification names them.
EndStates == {"Completed", "SkippedNoData", "Failed"}
\* The trigger handler's call of run_daily_prediction is over and the handler
\* answers its caller in this step.
ManualAnswers == pc["manual"] \in Terminal /\ pc'["manual"] = "idle"

\* C11 (as claimed): the answer of the manual trigger tells the state its run
\* ended in: the answer sent for a run that ended in one of Completed,
\* SkippedNoData and Failed is not the answer the operation gives for a run
\* that ended in another of them.
C11_ResponseTellsOutcome ==
    [][ManualAnswers =>
           /\ response' # None
           /\ \A s \in EndStates \ {pc["manual"]} :
                 \A e \in {"none", err["manual"]} :
                     response' # Some(TriggerResponse(s, e))]_vars

\* The dates before the host's local today that lie within two days of it.
PastDates ==
    (date_today(now, tzOffset) - 2) .. (date_today(now, tzOffset) - 1)

\* C12 (as claimed): whenever the manual trigger can be called, it can start
\* a run for any past date its caller supplies; here, for each past date
\* that has readings to backfill from.
C12_ManualTargetsSuppliedDate ==
    \A d \in PastDates :
        (Serving /\ LoopFree /\ InDay(d) # {}) =>
            ENABLED (Trigger("manual") /\ target'["manual"] = d)

\* C13: a write step either commits, or fails on the uniqueness constraint
\* or on the commit and the run is Failed with the Prediction Store as it
\* was before the step; the failure does not reach the caller, and neither
\* the steps of the run before its write, nor the reload after the commit,
\* nor its return from Failed change the store.
C13_FailedWriteLeavesStore ==
    [][\A p \in Procs :
          /\ (pc[p] = "write" /\ Steps(p)) =>
                 /\ pc'[p] \in {"refresh", "Failed"}
                 /\ pc'[p] = "Failed" =>
                        /\ err'[p] \in {"IntegrityError", "OperationalError"}
                        /\ predictions' = predictions
          /\ (Steps(p) /\ pc[p] \in {"lookup", "refresh", "Failed"}) =>
                 predictions' = predictions
          /\ (p = "manual" /\ pc[p] = "Failed" /\ Steps(p)) =>
                 response' # None /\ response'[1].status = 200]_vars

\* The scheduler's run, which found no row, has failed after classifying,
\* and the manual run, which found the row a run in between had inserted,
\* has failed on the update path; the store holds that row alone, stamped
\* before this instant and without the means the manual run aggregated.
C13_Witness ==
    /\ pc["scheduler"] = "Failed" /\ err["scheduler"] = "OperationalError"
    /\ existing["scheduler"] = None
    /\ label["scheduler"] # ""
    /\ pc["manual"] = "Failed" /\ err["manual"] = "OperationalError"
    /\ existing["manual"] # None
    /\ target["manual"] = target["scheduler"]
    /\ Len(predictions) = 1
    /\ predictions[1].id = existing["manual"][1].id
    /\ predictions[1].created_at < now
    /\ AggOf(predictions[1]) # aggregates["manual"][1]

\* Handler h has answered in the step just taken.
Answered(h) == response # None /\ response[1].handler = h
\* Handler h answers in this step.
Answers(h) == response' # None /\ response'[1].handler = h

\* C14: every step, whichever of ingestion, the scheduled and the manual
\* job takes it, leaves every stored reading as it is; the
\* Reading Store changes only by the commit of an ingestion, which adds one
\* reading after the others under an id no stored reading has; the
\* ingestion's answer, which comes in a later step, changes nothing and,
\* when it is 201, carries the reading that ingestion stored; and no step of
\* a run of the job changes the Reading Store.
C14_ReadingsAppendOnly ==
    [][/\ readings' # readings =>
              /\ Len(readings') = Len(readings) + 1
              /\ \A i \in 1..Len(readings) :
                    /\ readings'[i] = readings[i]
                    /\ readings[i].id # readings'[Len(readings')].id
              /\ db_reading = None
              /\ db_reading' = Some(readings'[Len(readings')].id)
              /\ pc' = pc /\ predictions' = predictions
       /\ (Answers("submit_sensor_reading") /\ response'[1].status = 201) =>
              /\ readings' = readings
              /\ db_reading # None
              /\ response'[1].body.id = db_reading[1]
              /\ \E i \in 1..Len(readings) : readings[i] = response'[1].body
       /\ \A p \in Procs : Steps(p) => readings' = readings]_vars

\* Two readings are stored and the ingestion of the second has just
\* answered 201 with it, an instant after its commit; between that commit
\* and the answer the scheduler's run aggregated both readings, and the
\* record it then wrote counts them.
C14_Witness ==
    /\ Len(readings) = 2
    /\ readings[1].id # readings[2].id
    /\ readings[2].timestamp < now
    /\ Len(predictions) = 1
    /\ predictions[1].reading_count = 2
    /\ predictions[1].created_at = now
    /\ pc["scheduler"] = "Completed"
    /\ Answered("submit_sensor_reading")
    /\ response[1].status = 201 /\ response[1].body = readings[2]

\* C16: a query step changes neither store, whether its query is answered
\* (the handler answers) or refused (the server answers for it).  When it
\* answers, 'latest reading' answers with a stored reading that no stored
\* reading is stamped later than, and with not-found when the Reading Store
\* is empty; 'latest prediction' answers with the stored record that no
\* stored record has a later date than, and with not-found when the
\* Prediction Store is empty; the dashboard answers with both, each part
\* None when its store is empty.
C16_QueriesReadLatest ==
    [][response' # None =>
       /\ (\/ Answers("get_latest_reading")
           \/ Answers("get_latest_prediction")
           \/ Answers("get_dashboard_data")
           \/ Answers(ServerError.handler)) =>
              readings' = readings /\ predictions' = predictions
       /\ Answers("get_latest_reading") =>
              IF readings = <<>>
              THEN response'[1].status = 404
              ELSE /\ response'[1].status = 200
                   /\ \E i \in 1..Len(readings) : readings[i] = response'[1].body
                   /\ \A i \in 1..Len(readings) :
                         readings[i].timestamp <= response'[1].body.timestamp
       /\ Answers("get_latest_prediction") =>
              IF predictions = <<>>
              THEN response'[1].status = 404
              ELSE /\ response'[1].status = 200
                   /\ \E i \in 1..Len(predictions) :
                         predictions[i] = response'[1].body
                   /\ \A i \in 1..Len(predictions) :
                         predictions[i].date <= response'[1].body.date
       /\ Answers("get_dashboard_data") =>
              LET r == response'[1].body.latest_reading
                  q == response'[1].body.latest_prediction
              IN  /\ (r = None) = (readings = <<>>)
                  /\ (q = None) = (predictions = <<>>)
                  /\ r # None =>
                        /\ \E i \in 1..Len(readings) : readings[i] = r[1]
                        /\ \A i \in 1..Len(readings) :
                              readings[i].timestamp <= r[1].timestamp
                  /\ q # None =>
                        /\ \E i \in 1..Len(predictions) : predictions[i] = q[1]
                        /\ \A i \in 1..Len(predictions) :
                              predictions[i].date <= q[1].date]_vars

\* The record of the later date was stored first: the run for the earlier
\* date, entered before it, committed after it.  'latest prediction' has
\* just answered with the record of the later date, which is not the one
\* stored last.
C16_Witness ==
    /\ Len(predictions) = 2
    /\ predictions[1].id < predictions[2].id
    /\ predictions[1].date > predictions[2].date
    /\ Answered("get_latest_prediction")
    /\ response[1].status = 200 /\ response[1].body = predictions[1]

\* predict's own test passes on the service: neither attribute is None.
HasArtifacts(svc) == svc \in {"loaded_proba", "loaded_plain", "loaded_faulty"}

\* lifespan takes its startup half and gets as far as load_artifacts.
StartupLoads == phase = "imported" /\ phase' \notin {"imported", "create_failed"}

C17_PredictNeedsArtifacts ==
    [][StartupLoads =>
          /\ (phase' = "load_failed" /\ ~HasArtifacts(app_state_ml')) =>
                 PredictRaises(app_state_ml') = "RuntimeError"
          /\ phase' # "load_failed" =>
                 PredictRaises(app_state_ml') = "none"]_vars

\* C18: no step removes a stored DailyPrediction or changes its identity or
\* its date: for every record stored before a step, exactly one record with
\* the same id is stored after it, and it has the same date.  So a record,
\* once stored, is there with its id and date in every later state.
C18_RecordsStay ==
    [][\A i \in 1..Len(predictions) :
          /\ \E j \in 1..Len(predictions') :
                /\ predictions'[j].id = predictions[i].id
                /\ predictions'[j].date = predictions[i].date
          /\ Cardinality({j \in 1..Len(predictions') :
                             predictions'[j].id = predictions[i].id}) = 1]_vars

\* The record of the earlier of two dates has been rewritten by a run that
\* outlasted the insert of the later date's record and a failed run; it
\* still has the id the run's lookup found.
C18_Witness ==
    /\ Len(predictions) = 2
    /\ predictions[1].date < predictions[2].date
    /\ pc["scheduler"] = "Completed"
    /\ existing["scheduler"] # None
    /\ existing["scheduler"][1].id = predictions[1].id
    /\ predictions[1].created_at = now
    /\ predictions[2].created_at = now
    /\ pc["manual"] = "Failed"

\* C19: in every reachable state each stored DailyPrediction counts at
\* least one reading and at most as many readings as the Reading Store now
\* holds in the window of the record's date.
C19_CountWithinWindow ==
    \A i \in 1..Len(predictions) :
        /\ predictions[i].reading_count >= 1
        /\ predictions[i].reading_count <= Cardinality(InDay(predictions[i].date))

\* A record counts one reading while the window of its date holds two: the
\* second was ingested after the run had aggregated.
C19_Witness ==
    \E i \in 1..Len(predictions) :
        /\ predictions[i].reading_count = 1
        /\ Cardinality(InDay(predictions[i].date)) = 2
        /\ \A p \in Procs : pc[p] = "idle"

\* Both runs found no record for one date, thread p's insert committed and
\* the other thread's was refused.
InsertRaceWonBy(p) ==
    /\ pc[p] = "Completed" /\ existing[p] = None
    /\ pc[Other(p)] = "Failed" /\ err[Other(p)] = "IntegrityError"
    /\ existing[Other(p)] = None
    /\ target[Other(p)] = target[p]

\* C20: a run whose lookup found no record and whose insert meets a record
\* of its date, committed meanwhile by the overlapping run, does not commit:
\* the insert is refused on the uniqueness constraint whenever the storage
\* engine takes the statement (and as a locked database when it does not),
\* the run ends Failed, not raising to its caller, and the store stays as
\* the first insert left it.  When both runs of such a race have ended, one
\* record is stored for the date and it holds the means, count, label and
\* confidence of the run whose insert committed.
C20_OneInsertWins ==
    /\ [][\A p \in Procs :
              (/\ pc[p] = "write" /\ Steps(p)
               /\ existing[p] = None
               /\ RowsFor(predictions, target[p]) # {}) =>
                  /\ pc'[p] = "Failed"
                  /\ err'[p] \in {"IntegrityError"} \cup Refused(CommitOutcomes)
                  /\ predictions' = predictions]_vars
    /\ [](\A p \in Procs :
              (/\ pc[p] = "write"
               /\ existing[p] = None
               /\ RowsFor(predictions, target[p]) # {}) =>
                  ENABLED (/\ StepWrite(p)
                           /\ err'[p] = "IntegrityError"))
    /\ [](\A p \in Procs :
              InsertRaceWonBy(p) =>
                  /\ Cardinality(RowsFor(predictions, target[p])) = 1
                  /\ AggOf(RowOf(predictions, target[p])) = aggregates[p][1]
                  /\ RowOf(predictions, target[p]).prediction = label[p]
                  /\ RowOf(predictions, target[p]).prediction_confidence
                         = confidence[p])

\* The two runs of an insert race aggregated different sets of readings (one
\* was ingested in between) and reached different labels; the record holds
\* what the committing run computed.
C20_Witness ==
    \E p \in Procs :
        /\ InsertRaceWonBy(p)
        /\ aggregates[p] # aggregates[Other(p)]
        /\ label[p] # label[Other(p)]
        /\ RowOf(predictions, target[p]).prediction = label[p]
        /\ RowOf(predictions, target[p]).reading_count
               = aggregates[p][1].reading_count

\* Thread p commits its update while the overlapping run of the other thread
\* for the same date, which aggregated other readings, has committed its
\* update and not yet returned: p's commit is the last of the two.
CommitsLastOfTwoUpdates(p) ==
    /\ pc[p] = "write" /\ pc'[p] = "refresh"
    /\ existing[p] # None
    /\ pc[Other(p)] \in {"refresh", "Completed"} /\ existing[Other(p)] # None
    /\ target[Other(p)] = target[p]
    /\ aggregates[Other(p)] # aggregates[p]

\* C21 (as claimed): when two overlapping runs both update the record of
\* their date, having aggregated different sets of readings, the record after
\* the later commit holds the means, the reading count, the label and the
\* confidence of the run that committed last, none of them from the other.
C21_LastCommittedWins ==
    [][\A p \in Procs :
          CommitsLastOfTwoUpdates(p) =>
              /\ AggOf(RowOf(predictions', target[p])) = aggregates[p][1]
              /\ RowOf(predictions', target[p]).prediction = label[p]
              /\ RowOf(predictions', target[p]).prediction_confidence
                     = confidence[p]]_vars

====
